---- MODULE Spec2Model ----
(***************************************************************************)
(* The BQM daily report scripts (bqm.py and bqm_v2.py): a batch driver     *)
(* that lists an input directory, classifies each filename, loads the      *)
(* matching CSV files, derives the packet-loss column and renders one      *)
(* chart per day.                                                          *)
(*                                                                         *)
(* Text is modelled as sequences of one-character strings, so that the     *)
(* regular expression, strptime and strftime are computed character by     *)
(* character. A float is an IEEE 754 binary64 value, a record             *)
(* [k, s, m, e]: k = "num" is the finite value s * M * 2^e with the 53-bit *)
(* significand M held in the three limbs m, and k = "nan", "inf", "-inf"   *)
(* are the special values pandas produces; every arithmetic result is      *)
(* rounded to nearest, ties to even, as the hardware does. The latency     *)
(* columns take no part in any property below and are left out of the      *)
(* table.                                                                  *)
(***************************************************************************)
EXTENDS Integers, Sequences, FiniteSets, TLC

VARIABLES
    script,     \* which of the two scripts runs: "bqm" or "bqm_v2"
    dir,        \* the names in INPUT_DIR
    listing,    \* sorted(os.listdir(INPUT_DIR)), once main has computed it
    i,          \* position of the for loop in listing (next entry, 1-based)
    pc,         \* "start", "loop", "done", or "crashed" (uncaught exception)
    stdout,     \* the lines printed so far
    images,     \* the paths present in OUTPUT_DIR
    written,    \* every path handed to plt.savefig, in order
    figs,       \* number of pyplot figures currently open
    attempted,  \* the filenames process_file has been called on, in order
    csv,        \* content of the file the last process_file call read
    frame,      \* that call's table after the Packet Loss % assignment
    handed,     \* whether that call reached plot_day
    df,         \* the dataset that call handed to plot_day
    outage      \* the outage mask plot_day computed from it (v2)

vars == <<script, dir, listing, i, pc, stdout, images, written, figs,
          attempted, csv, frame, handed, df, outage>>

(***************************** bounds **************************************)
MaxFiles == 2
MaxRows == 2
MaxLoaderRows == 1
MaxPolls == 6

(**************************** constants ************************************)
PACKET_LOSS_OUTAGE_THRESHOLD == 20

OUTPUT_DIR == <<"b","q","m","_","i","m","a","g","e","s">>

None == [kind |-> "none", year |-> 0, month |-> 0, day |-> 0]

(****************************** text ***************************************)
AsciiDigits == {"0","1","2","3","4","5","6","7","8","9"}

\* The decimal digits outside ASCII (Unicode 14, as in CPython 3.11), each
\* written as the token "U+<code point>": runs of consecutive code points,
\* start being the code point of the first, whose digit values count
\* 0..9 along the run (and again 0..9, in the one run of fifty).
UnicodeDigitRuns == {
    [start |-> 1632, chars |-> <<
          "U+0660", "U+0661", "U+0662", "U+0663", "U+0664",
          "U+0665", "U+0666", "U+0667", "U+0668", "U+0669">>],
    [start |-> 1776, chars |-> <<
          "U+06F0", "U+06F1", "U+06F2", "U+06F3", "U+06F4",
          "U+06F5", "U+06F6", "U+06F7", "U+06F8", "U+06F9">>],
    [start |-> 1984, chars |-> <<
          "U+07C0", "U+07C1", "U+07C2", "U+07C3", "U+07C4",
          "U+07C5", "U+07C6", "U+07C7", "U+07C8", "U+07C9">>],
    [start |-> 2406, chars |-> <<
          "U+0966", "U+0967", "U+0968", "U+0969", "U+096A",
          "U+096B", "U+096C", "U+096D", "U+096E", "U+096F">>],
    [start |-> 2534, chars |-> <<
          "U+09E6", "U+09E7", "U+09E8", "U+09E9", "U+09EA",
          "U+09EB", "U+09EC", "U+09ED", "U+09EE", "U+09EF">>],
    [start |-> 2662, chars |-> <<
          "U+0A66", "U+0A67", "U+0A68", "U+0A69", "U+0A6A",
          "U+0A6B", "U+0A6C", "U+0A6D", "U+0A6E", "U+0A6F">>],
    [start |-> 2790, chars |-> <<
          "U+0AE6", "U+0AE7", "U+0AE8", "U+0AE9", "U+0AEA",
          "U+0AEB", "U+0AEC", "U+0AED", "U+0AEE", "U+0AEF">>],
    [start |-> 2918, chars |-> <<
          "U+0B66", "U+0B67", "U+0B68", "U+0B69", "U+0B6A",
          "U+0B6B", "U+0B6C", "U+0B6D", "U+0B6E", "U+0B6F">>],
    [start |-> 3046, chars |-> <<
          "U+0BE6", "U+0BE7", "U+0BE8", "U+0BE9", "U+0BEA",
          "U+0BEB", "U+0BEC", "U+0BED", "U+0BEE", "U+0BEF">>],
    [start |-> 3174, chars |-> <<
          "U+0C66", "U+0C67", "U+0C68", "U+0C69", "U+0C6A",
          "U+0C6B", "U+0C6C", "U+0C6D", "U+0C6E", "U+0C6F">>],
    [start |-> 3302, chars |-> <<
          "U+0CE6", "U+0CE7", "U+0CE8", "U+0CE9", "U+0CEA",
          "U+0CEB", "U+0CEC", "U+0CED", "U+0CEE", "U+0CEF">>],
    [start |-> 3430, chars |-> <<
          "U+0D66", "U+0D67", "U+0D68", "U+0D69", "U+0D6A",
          "U+0D6B", "U+0D6C", "U+0D6D", "U+0D6E", "U+0D6F">>],
    [start |-> 3558, chars |-> <<
          "U+0DE6", "U+0DE7", "U+0DE8", "U+0DE9", "U+0DEA",
          "U+0DEB", "U+0DEC", "U+0DED", "U+0DEE", "U+0DEF">>],
    [start |-> 3664, chars |-> <<
          "U+0E50", "U+0E51", "U+0E52", "U+0E53", "U+0E54",
          "U+0E55", "U+0E56", "U+0E57", "U+0E58", "U+0E59">>],
    [start |-> 3792, chars |-> <<
          "U+0ED0", "U+0ED1", "U+0ED2", "U+0ED3", "U+0ED4",
          "U+0ED5", "U+0ED6", "U+0ED7", "U+0ED8", "U+0ED9">>],
    [start |-> 3872, chars |-> <<
          "U+0F20", "U+0F21", "U+0F22", "U+0F23", "U+0F24",
          "U+0F25", "U+0F26", "U+0F27", "U+0F28", "U+0F29">>],
    [start |-> 4160, chars |-> <<
          "U+1040", "U+1041", "U+1042", "U+1043", "U+1044",
          "U+1045", "U+1046", "U+1047", "U+1048", "U+1049">>],
    [start |-> 4240, chars |-> <<
          "U+1090", "U+1091", "U+1092", "U+1093", "U+1094",
          "U+1095", "U+1096", "U+1097", "U+1098", "U+1099">>],
    [start |-> 6112, chars |-> <<
          "U+17E0", "U+17E1", "U+17E2", "U+17E3", "U+17E4",
          "U+17E5", "U+17E6", "U+17E7", "U+17E8", "U+17E9">>],
    [start |-> 6160, chars |-> <<
          "U+1810", "U+1811", "U+1812", "U+1813", "U+1814",
          "U+1815", "U+1816", "U+1817", "U+1818", "U+1819">>],
    [start |-> 6470, chars |-> <<
          "U+1946", "U+1947", "U+1948", "U+1949", "U+194A",
          "U+194B", "U+194C", "U+194D", "U+194E", "U+194F">>],
    [start |-> 6608, chars |-> <<
          "U+19D0", "U+19D1", "U+19D2", "U+19D3", "U+19D4",
          "U+19D5", "U+19D6", "U+19D7", "U+19D8", "U+19D9">>],
    [start |-> 6784, chars |-> <<
          "U+1A80", "U+1A81", "U+1A82", "U+1A83", "U+1A84",
          "U+1A85", "U+1A86", "U+1A87", "U+1A88", "U+1A89">>],
    [start |-> 6800, chars |-> <<
          "U+1A90", "U+1A91", "U+1A92", "U+1A93", "U+1A94",
          "U+1A95", "U+1A96", "U+1A97", "U+1A98", "U+1A99">>],
    [start |-> 6992, chars |-> <<
          "U+1B50", "U+1B51", "U+1B52", "U+1B53", "U+1B54",
          "U+1B55", "U+1B56", "U+1B57", "U+1B58", "U+1B59">>],
    [start |-> 7088, chars |-> <<
          "U+1BB0", "U+1BB1", "U+1BB2", "U+1BB3", "U+1BB4",
          "U+1BB5", "U+1BB6", "U+1BB7", "U+1BB8", "U+1BB9">>],
    [start |-> 7232, chars |-> <<
          "U+1C40", "U+1C41", "U+1C42", "U+1C43", "U+1C44",
          "U+1C45", "U+1C46", "U+1C47", "U+1C48", "U+1C49">>],
    [start |-> 7248, chars |-> <<
          "U+1C50", "U+1C51", "U+1C52", "U+1C53", "U+1C54",
          "U+1C55", "U+1C56", "U+1C57", "U+1C58", "U+1C59">>],
    [start |-> 42528, chars |-> <<
          "U+A620", "U+A621", "U+A622", "U+A623", "U+A624",
          "U+A625", "U+A626", "U+A627", "U+A628", "U+A629">>],
    [start |-> 43216, chars |-> <<
          "U+A8D0", "U+A8D1", "U+A8D2", "U+A8D3", "U+A8D4",
          "U+A8D5", "U+A8D6", "U+A8D7", "U+A8D8", "U+A8D9">>],
    [start |-> 43264, chars |-> <<
          "U+A900", "U+A901", "U+A902", "U+A903", "U+A904",
          "U+A905", "U+A906", "U+A907", "U+A908", "U+A909">>],
    [start |-> 43472, chars |-> <<
          "U+A9D0", "U+A9D1", "U+A9D2", "U+A9D3", "U+A9D4",
          "U+A9D5", "U+A9D6", "U+A9D7", "U+A9D8", "U+A9D9">>],
    [start |-> 43504, chars |-> <<
          "U+A9F0", "U+A9F1", "U+A9F2", "U+A9F3", "U+A9F4",
          "U+A9F5", "U+A9F6", "U+A9F7", "U+A9F8", "U+A9F9">>],
    [start |-> 43600, chars |-> <<
          "U+AA50", "U+AA51", "U+AA52", "U+AA53", "U+AA54",
          "U+AA55", "U+AA56", "U+AA57", "U+AA58", "U+AA59">>],
    [start |-> 44016, chars |-> <<
          "U+ABF0", "U+ABF1", "U+ABF2", "U+ABF3", "U+ABF4",
          "U+ABF5", "U+ABF6", "U+ABF7", "U+ABF8", "U+ABF9">>],
    [start |-> 65296, chars |-> <<
          "U+FF10", "U+FF11", "U+FF12", "U+FF13", "U+FF14",
          "U+FF15", "U+FF16", "U+FF17", "U+FF18", "U+FF19">>],
    [start |-> 66720, chars |-> <<
          "U+104A0", "U+104A1", "U+104A2", "U+104A3", "U+104A4",
          "U+104A5", "U+104A6", "U+104A7", "U+104A8", "U+104A9">>],
    [start |-> 68912, chars |-> <<
          "U+10D30", "U+10D31", "U+10D32", "U+10D33", "U+10D34",
          "U+10D35", "U+10D36", "U+10D37", "U+10D38", "U+10D39">>],
    [start |-> 69734, chars |-> <<
          "U+11066", "U+11067", "U+11068", "U+11069", "U+1106A",
          "U+1106B", "U+1106C", "U+1106D", "U+1106E", "U+1106F">>],
    [start |-> 69872, chars |-> <<
          "U+110F0", "U+110F1", "U+110F2", "U+110F3", "U+110F4",
          "U+110F5", "U+110F6", "U+110F7", "U+110F8", "U+110F9">>],
    [start |-> 69942, chars |-> <<
          "U+11136", "U+11137", "U+11138", "U+11139", "U+1113A",
          "U+1113B", "U+1113C", "U+1113D", "U+1113E", "U+1113F">>],
    [start |-> 70096, chars |-> <<
          "U+111D0", "U+111D1", "U+111D2", "U+111D3", "U+111D4",
          "U+111D5", "U+111D6", "U+111D7", "U+111D8", "U+111D9">>],
    [start |-> 70384, chars |-> <<
          "U+112F0", "U+112F1", "U+112F2", "U+112F3", "U+112F4",
          "U+112F5", "U+112F6", "U+112F7", "U+112F8", "U+112F9">>],
    [start |-> 70736, chars |-> <<
          "U+11450", "U+11451", "U+11452", "U+11453", "U+11454",
          "U+11455", "U+11456", "U+11457", "U+11458", "U+11459">>],
    [start |-> 70864, chars |-> <<
          "U+114D0", "U+114D1", "U+114D2", "U+114D3", "U+114D4",
          "U+114D5", "U+114D6", "U+114D7", "U+114D8", "U+114D9">>],
    [start |-> 71248, chars |-> <<
          "U+11650", "U+11651", "U+11652", "U+11653", "U+11654",
          "U+11655", "U+11656", "U+11657", "U+11658", "U+11659">>],
    [start |-> 71360, chars |-> <<
          "U+116C0", "U+116C1", "U+116C2", "U+116C3", "U+116C4",
          "U+116C5", "U+116C6", "U+116C7", "U+116C8", "U+116C9">>],
    [start |-> 71472, chars |-> <<
          "U+11730", "U+11731", "U+11732", "U+11733", "U+11734",
          "U+11735", "U+11736", "U+11737", "U+11738", "U+11739">>],
    [start |-> 71904, chars |-> <<
          "U+118E0", "U+118E1", "U+118E2", "U+118E3", "U+118E4",
          "U+118E5", "U+118E6", "U+118E7", "U+118E8", "U+118E9">>],
    [start |-> 72016, chars |-> <<
          "U+11950", "U+11951", "U+11952", "U+11953", "U+11954",
          "U+11955", "U+11956", "U+11957", "U+11958", "U+11959">>],
    [start |-> 72784, chars |-> <<
          "U+11C50", "U+11C51", "U+11C52", "U+11C53", "U+11C54",
          "U+11C55", "U+11C56", "U+11C57", "U+11C58", "U+11C59">>],
    [start |-> 73040, chars |-> <<
          "U+11D50", "U+11D51", "U+11D52", "U+11D53", "U+11D54",
          "U+11D55", "U+11D56", "U+11D57", "U+11D58", "U+11D59">>],
    [start |-> 73120, chars |-> <<
          "U+11DA0", "U+11DA1", "U+11DA2", "U+11DA3", "U+11DA4",
          "U+11DA5", "U+11DA6", "U+11DA7", "U+11DA8", "U+11DA9">>],
    [start |-> 92768, chars |-> <<
          "U+16A60", "U+16A61", "U+16A62", "U+16A63", "U+16A64",
          "U+16A65", "U+16A66", "U+16A67", "U+16A68", "U+16A69">>],
    [start |-> 92864, chars |-> <<
          "U+16AC0", "U+16AC1", "U+16AC2", "U+16AC3", "U+16AC4",
          "U+16AC5", "U+16AC6", "U+16AC7", "U+16AC8", "U+16AC9">>],
    [start |-> 93008, chars |-> <<
          "U+16B50", "U+16B51", "U+16B52", "U+16B53", "U+16B54",
          "U+16B55", "U+16B56", "U+16B57", "U+16B58", "U+16B59">>],
    [start |-> 120782, chars |-> <<
          "U+1D7CE", "U+1D7CF", "U+1D7D0", "U+1D7D1", "U+1D7D2",
          "U+1D7D3", "U+1D7D4", "U+1D7D5", "U+1D7D6", "U+1D7D7",
          "U+1D7D8", "U+1D7D9", "U+1D7DA", "U+1D7DB", "U+1D7DC",
          "U+1D7DD", "U+1D7DE", "U+1D7DF", "U+1D7E0", "U+1D7E1",
          "U+1D7E2", "U+1D7E3", "U+1D7E4", "U+1D7E5", "U+1D7E6",
          "U+1D7E7", "U+1D7E8", "U+1D7E9", "U+1D7EA", "U+1D7EB",
          "U+1D7EC", "U+1D7ED", "U+1D7EE", "U+1D7EF", "U+1D7F0",
          "U+1D7F1", "U+1D7F2", "U+1D7F3", "U+1D7F4", "U+1D7F5",
          "U+1D7F6", "U+1D7F7", "U+1D7F8", "U+1D7F9", "U+1D7FA",
          "U+1D7FB", "U+1D7FC", "U+1D7FD", "U+1D7FE", "U+1D7FF">>],
    [start |-> 123200, chars |-> <<
          "U+1E140", "U+1E141", "U+1E142", "U+1E143", "U+1E144",
          "U+1E145", "U+1E146", "U+1E147", "U+1E148", "U+1E149">>],
    [start |-> 123632, chars |-> <<
          "U+1E2F0", "U+1E2F1", "U+1E2F2", "U+1E2F3", "U+1E2F4",
          "U+1E2F5", "U+1E2F6", "U+1E2F7", "U+1E2F8", "U+1E2F9">>],
    [start |-> 125264, chars |-> <<
          "U+1E950", "U+1E951", "U+1E952", "U+1E953", "U+1E954",
          "U+1E955", "U+1E956", "U+1E957", "U+1E958", "U+1E959">>],
    [start |-> 130032, chars |-> <<
          "U+1FBF0", "U+1FBF1", "U+1FBF2", "U+1FBF3", "U+1FBF4",
          "U+1FBF5", "U+1FBF6", "U+1FBF7", "U+1FBF8", "U+1FBF9">>]
}

\* The run a non-ASCII digit lies in, and its offset there.
UnicodeDigitOffset(c) ==
    LET r == CHOOSE q \in UnicodeDigitRuns :
                 \E k \in 1..Len(q.chars) : q.chars[k] = c
        k == CHOOSE j \in 1..Len(r.chars) : r.chars[j] = c
    IN  [start |-> r.start, at |-> k - 1]

\* \d of a str pattern: every Unicode decimal digit, not only 0-9.
IsDigit(c) ==
    \/ c \in AsciiDigits
    \/ \E r \in UnicodeDigitRuns : \E k \in 1..Len(r.chars) : r.chars[k] = c

\* int() of one decimal digit.
DigitVal(c) ==
    CASE c = "0" -> 0 [] c = "1" -> 1 [] c = "2" -> 2 [] c = "3" -> 3
      [] c = "4" -> 4 [] c = "5" -> 5 [] c = "6" -> 6 [] c = "7" -> 7
      [] c = "8" -> 8 [] c = "9" -> 9
      [] OTHER -> UnicodeDigitOffset(c).at % 10

DigitChar(n) ==
    CASE n = 0 -> "0" [] n = 1 -> "1" [] n = 2 -> "2" [] n = 3 -> "3"
      [] n = 4 -> "4" [] n = 5 -> "5" [] n = 6 -> "6" [] n = 7 -> "7"
      [] n = 8 -> "8" [] n = 9 -> "9"

\* The code point of a character: Python compares str by code point.
Code(c) ==
    CASE c = "-" -> 45 [] c = "." -> 46 [] c = "/" -> 47
      [] c \in AsciiDigits -> 48 + DigitVal(c)
      [] c = "_" -> 95
      [] c = "a" -> 97 [] c = "b" -> 98 [] c = "c" -> 99 [] c = "d" -> 100
      [] c = "e" -> 101 [] c = "g" -> 103 [] c = "i" -> 105 [] c = "k" -> 107
      [] c = "l" -> 108 [] c = "m" -> 109 [] c = "n" -> 110 [] c = "o" -> 111
      [] c = "p" -> 112 [] c = "q" -> 113 [] c = "r" -> 114 [] c = "s" -> 115
      [] c = "t" -> 116 [] c = "u" -> 117 [] c = "v" -> 118 [] c = "x" -> 120
      [] OTHER -> LET o == UnicodeDigitOffset(c)
                  IN  o.start + o.at

RECURSIVE LexLess(_, _)
LexLess(a, b) ==
    IF a = <<>> THEN b # <<>>
    ELSE IF b = <<>> THEN FALSE
    ELSE IF Code(a[1]) < Code(b[1]) THEN TRUE
    ELSE IF Code(a[1]) > Code(b[1]) THEN FALSE
    ELSE LexLess(Tail(a), Tail(b))

\* sorted(os.listdir(INPUT_DIR)): ascending by code point.
RECURSIVE sorted(_)
sorted(S) ==
    IF S = {} THEN <<>>
    ELSE LET m == CHOOSE x \in S : \A y \in S \ {x} : LexLess(x, y)
         IN  <<m>> \o sorted(S \ {m})

(*************************** the classifier ********************************)
Prefix == <<"b","q","m","-","r","e","s","u","l","t","-">>
DotCsv == <<".","c","s","v">>

\* Whether text t, from position p on, starts with the date group
\* \d{4}-\d{2}-\d{2} followed by \.csv
DateThenCsvAt(t, p) ==
    /\ Len(t) >= p + 13
    /\ \A k \in {0, 1, 2, 3, 5, 6, 8, 9} : IsDigit(t[p + k])
    /\ t[p + 4] = "-"
    /\ t[p + 7] = "-"
    /\ SubSeq(t, p + 10, p + 13) = DotCsv

\* re.match(FILENAME_REGEX, filename): anchored at the start of the string
\* only; the result is group(1), or <<>> for no match.
re_match(filename) ==
    IF /\ Len(filename) >= Len(Prefix)
       /\ SubSeq(filename, 1, Len(Prefix)) = Prefix
       /\ DateThenCsvAt(filename, Len(Prefix) + 1)
    THEN SubSeq(filename, Len(Prefix) + 1, Len(Prefix) + 10)
    ELSE <<>>

IsLeap(y) == (y % 4 = 0 /\ y % 100 # 0) \/ y % 400 = 0

DaysIn(y, m) ==
    IF m = 2 THEN (IF IsLeap(y) THEN 29 ELSE 28)
    ELSE IF m \in {4, 6, 9, 11} THEN 30 ELSE 31

\* datetime.strptime(g, "%Y-%m-%d") on a matched group: the date, or a
\* ValueError (kind "raise"). _strptime turns the format into the pattern
\*   %Y: \d\d\d\d   %m: 1[0-2]|0[1-9]|[1-9]   %d: 3[0-1]|[1-2]\d|0[1-9]|[1-9]
\* so the year takes any decimal digits, the month ASCII digits only, and
\* the day a non-ASCII digit only after 1 or 2; int() then reads the
\* digits by value and the date constructor checks the calendar.
strptime(g) ==
    LET y == 1000 * DigitVal(g[1]) + 100 * DigitVal(g[2])
               + 10 * DigitVal(g[3]) + DigitVal(g[4])
        m == 10 * DigitVal(g[6]) + DigitVal(g[7])
        d == 10 * DigitVal(g[9]) + DigitVal(g[10])
        monthMatches == /\ g[6] \in AsciiDigits
                        /\ g[7] \in AsciiDigits
                        /\ m \in 1..12
        dayMatches == /\ g[9] \in AsciiDigits
                      /\ g[10] \in AsciiDigits \/ g[9] \in {"1", "2"}
                      /\ d \in 1..31
    IN  IF monthMatches /\ dayMatches /\ y >= 1 /\ d <= DaysIn(y, m)
        THEN [kind |-> "date", year |-> y, month |-> m, day |-> d]
        ELSE [kind |-> "raise", year |-> 0, month |-> 0, day |-> 0]

extract_date(filename) ==
    LET match == re_match(filename)
    IN  IF match = <<>> THEN None ELSE strptime(match)

\* The decimal digits of n >= 0, without padding.
RECURSIVE Decimal(_)
Decimal(n) ==
    IF n < 10 THEN <<DigitChar(n)>>
    ELSE Append(Decimal(n \div 10), DigitChar(n % 10))

Pad2(n) == <<DigitChar(n \div 10), DigitChar(n % 10)>>

\* date.strftime('%Y-%m-%d'): CPython hands the format to the C library,
\* and glibc's %Y writes the year without zero padding.
strftime(date) ==
    Decimal(date.year) \o <<"-">> \o Pad2(date.month) \o <<"-">> \o Pad2(date.day)

\* os.path.join(OUTPUT_DIR, f"bqm_{date.strftime('%Y-%m-%d')}.png")
OutputPath(date) ==
    OUTPUT_DIR \o <<"/", "b", "q", "m", "_">> \o strftime(date)
               \o <<".", "p", "n", "g">>

(****************************** floats *************************************)
\* An IEEE 754 binary64 value. A finite value is s * M * 2^e, where the
\* significand M = m[1] * 2^36 + m[2] * 2^18 + m[3] is held in three
\* limbs and is either normalised to 53 bits (2^52 <= M < 2^53) or zero
\* (then e = 0). Poll counts and their quotients stay far inside the
\* exponent range, so overflow and subnormals do not arise.
Limb == 2^18

Float(s, m, e) == [k |-> "num", s |-> s, m |-> m, e |-> e]

Zero == Float(1, <<0, 0, 0>>, 0)
NegZero == Float(-1, <<0, 0, 0>>, 0)
NaN == [k |-> "nan", s |-> 1, m |-> <<0, 0, 0>>, e |-> 0]
Inf == [k |-> "inf", s |-> 1, m |-> <<0, 0, 0>>, e |-> 0]
NegInf == [k |-> "-inf", s |-> -1, m |-> <<0, 0, 0>>, e |-> 0]

Abs(x) == IF x < 0 THEN -x ELSE x

Sign(x) == IF x < 0 THEN -1 ELSE 1

SignedZero(s) == IF s < 0 THEN NegZero ELSE Zero

Infinity(s) == IF s < 0 THEN NegInf ELSE Inf

IsZero(a) == a.k = "num" /\ a.m[1] = 0

\* The element of a one-element set. In The({F(x) : x \in {v}}) the value
\* of v is computed once and named x.
The(S) == CHOOSE r \in S : TRUE

\* The number of bits of n > 0, and 0 for n = 0.
RECURSIVE BitLen(_)
BitLen(n) == IF n = 0 THEN 0 ELSE 1 + BitLen(n \div 2)

\* The number of trailing zero bits of n > 0.
RECURSIVE TrailingZeros(_)
TrailingZeros(n) == IF n % 2 = 1 THEN 0 ELSE 1 + TrailingZeros(n \div 2)

\* float(v) for an integer v: exact, since |v| < 2^31 < 2^53.
FromInt(v) ==
    IF v = 0 THEN Zero
    ELSE The({ Float(Sign(v),
                     IF t >= 36 THEN <<a * 2^(t - 36), 0, 0>>
                     ELSE <<a \div 2^(36 - t),
                            (a % 2^(36 - t)) * 2^(t - 18), 0>>,
                     -t)
               : a \in {Abs(v)}, t \in {53 - BitLen(Abs(v))} })

\* The significand after m, for rounding up: a carry out of the top limb
\* renormalises to 2^52 with the exponent one higher.
RoundUp(s, m, e) ==
    IF m[3] + 1 < Limb THEN Float(s, <<m[1], m[2], m[3] + 1>>, e)
    ELSE IF m[2] + 1 < Limb THEN Float(s, <<m[1], m[2] + 1, 0>>, e)
    ELSE IF m[1] + 1 < 2^17 THEN Float(s, <<m[1] + 1, 0, 0>>, e)
    ELSE Float(s, <<2^16, 0, 0>>, e + 1)

\* |a| = n * 2^e with n odd, for a finite a # 0. The significand of a
\* poll count (and of any operand this program divides) is short, so n
\* is a small integer.
Short(a) ==
    The({ [n |-> IF z >= 36 THEN a.m[1] \div 2^(z - 36)
                 ELSE IF z >= 18
                      THEN a.m[1] * 2^(36 - z) + a.m[2] \div 2^(z - 18)
                 ELSE a.m[1] * 2^(36 - z) + a.m[2] * 2^(18 - z)
                          + a.m[3] \div 2^z,
           e |-> a.e + z]
          : z \in {IF a.m[3] # 0 THEN TrailingZeros(a.m[3])
                   ELSE IF a.m[2] # 0 THEN 18 + TrailingZeros(a.m[2])
                   ELSE 36 + TrailingZeros(a.m[1])} })

\* Long division of r * Limb^z by b, one limb at a time (r < b): the z
\* limbs of the quotient, followed by the remainder.
RECURSIVE LongDiv(_, _, _)
LongDiv(r, b, z) ==
    IF z = 0 THEN <<r>>
    ELSE <<(r * Limb) \div b>> \o LongDiv((r * Limb) % b, b, z - 1)

\* The binary64 nearest to s * a / b for integers a, b > 0, ties to even:
\* with 2^p <= a/b < 2^(p+1), the 53-bit significand is the integer part
\* of a * 2^(52-p) / b, rounded up when the remainder is more than half
\* of b, or exactly half and the significand is odd.
Exponent(a, b) ==
    The({ IF (IF p0 >= 0 THEN a >= b * 2^p0 ELSE a * 2^(-p0) >= b)
          THEN p0 ELSE p0 - 1
          : p0 \in {BitLen(a) - BitLen(b)} })

Quotient(s, a, b) ==
    The({ LET t == 52 - p
              z == t \div 18
              X == a * 2^(t % 18)
          IN  The({ LET m == SubSeq(Q, z - 1, z + 1)
                        r == Q[z + 2]
                        up == \/ 2 * r > b
                              \/ 2 * r = b /\ m[3] % 2 = 1
                    IN  IF up THEN RoundUp(s, m, -t) ELSE Float(s, m, -t)
                    : Q \in {<<X \div b>> \o LongDiv(X % b, b, z)} })
          : p \in {Exponent(a, b)} })

\* Series / Series on numeric columns: numpy true division in float64
\* with the floating-point errors ignored, so x/0 is +-inf and 0/0 is
\* NaN; an infinite operand behaves as in IEEE 754 (inf/inf is NaN, x/inf
\* is 0). The quotient of two finite values is rounded once.
Ratio(s, x, y) ==
    The({ [q EXCEPT !.e = q.e + x.e - y.e] : q \in {Quotient(s, x.n, y.n)} })

DivValues(a, b) ==
    IF a.k = "nan" \/ b.k = "nan" THEN NaN
    ELSE IF a.k # "num"
         THEN (IF b.k # "num" THEN NaN ELSE Infinity(a.s * b.s))
    ELSE IF b.k # "num" THEN SignedZero(a.s * b.s)
    ELSE IF IsZero(b)
         THEN (IF IsZero(a) THEN NaN ELSE Infinity(a.s * b.s))
    ELSE IF IsZero(a) THEN SignedZero(a.s * b.s)
    ELSE The({ Ratio(a.s * b.s, x, y) : x \in {Short(a)}, y \in {Short(b)} })

Div(a, b) == The({ DivValues(x, y) : x \in {a}, y \in {b} })

\* Series * c for an integer c (|c| < 2^13): the exact product of the
\* significand and |c| is cut back to 53 bits and rounded to nearest,
\* ties to even.
Product(s, m, n, e) ==
    LET p3 == m[3] * n
        p2 == m[2] * n + p3 \div Limb
        p1 == m[1] * n + p2 \div Limb
    IN  The({ The({ LET r == p3 % h
                        up == \/ 2 * r > h
                              \/ 2 * r = h /\ q[3] % 2 = 1
                    IN  IF up THEN RoundUp(s, q, e + BitLen(h) - 1)
                        ELSE Float(s, q, e + BitLen(h) - 1)
                    : q \in {<<p1 \div h,
                               (p1 % h) * (Limb \div h) + (p2 % Limb) \div h,
                               (p2 % h) * (Limb \div h) + (p3 % Limb) \div h>>} })
              : h \in {2^(BitLen(p1) - 17)} })

TimesValue(a, c) ==
    IF a.k = "nan" THEN NaN
    ELSE IF a.k # "num"
         THEN (IF c = 0 THEN NaN ELSE Infinity(a.s * Sign(c)))
    ELSE IF IsZero(a) \/ c = 0 THEN SignedZero(a.s * Sign(c))
    ELSE Product(a.s * Sign(c), a.m, Abs(c), a.e)

Times(a, c) == The({ TimesValue(x, c) : x \in {a} })

\* |a| < |b| for finite a and b.
MagLess(a, b) ==
    IF IsZero(b) THEN FALSE
    ELSE IF IsZero(a) THEN TRUE
    ELSE IF a.e # b.e THEN a.e < b.e
    ELSE IF a.m[1] # b.m[1] THEN a.m[1] < b.m[1]
    ELSE IF a.m[2] # b.m[2] THEN a.m[2] < b.m[2]
    ELSE a.m[3] < b.m[3]

\* a < b for finite a and b; the two zeros are equal.
Less(a, b) ==
    IF IsZero(a) /\ IsZero(b) THEN FALSE
    ELSE IF a.s # b.s THEN a.s < b.s
    ELSE IF a.s > 0 THEN MagLess(a, b) ELSE MagLess(b, a)

\* a >= c for an integer c; every comparison with NaN is False.
GreaterEq(a, c) ==
    The({ CASE x.k = "nan" -> FALSE
            [] x.k = "inf" -> TRUE
            [] x.k = "-inf" -> FALSE
            [] x.k = "num" -> ~Less(x, y)
          : x \in {a}, y \in {FromInt(c)} })

(*************************** file contents *********************************)
\* A CSV cell of a poll column: an integer, empty, or non-numeric text.
IntCell(v) == [t |-> "int", v |-> v]
Empty == [t |-> "empty", v |-> 0]
Text == [t |-> "text", v |-> 0]

\* A Timestamp cell: "ok" is a well-formed timestamp, "" an empty cell,
\* "bad" text that is no timestamp.
TimestampCells == {"ok", "", "bad"}

Rows(cells) == [ts : TimestampCells, sent : cells, lost : cells]

SeqsUpTo(S, n) == UNION {[1..m -> S] : m \in 0..n}

Garbled == [kind |-> "garbled", cols |-> FALSE, rows |-> <<>>]
NoFile == [kind |-> "none", cols |-> FALSE, rows |-> <<>>]

\* What a file can hold: bytes read_csv cannot parse, a table without the
\* required columns, or a table of at most n rows over the given cells.
Contents(cells, n) ==
    {Garbled, [kind |-> "table", cols |-> FALSE, rows |-> <<>>]}
      \cup {[kind |-> "table", cols |-> TRUE, rows |-> r] :
               r \in SeqsUpTo(Rows(cells), n)}

\* Batch runs vary the files and their timestamps and keep the poll counts
\* fixed; loader runs vary the poll counts of one file.
BatchCells == {IntCell(1)}
LoaderCells ==
    {Empty, Text} \cup {IntCell(v) : v \in 0..MaxPolls \cup {10, 100, 200}}

(****************************** the loader *********************************)
\* pd.to_numeric(column, errors="coerce"), cell by cell.
to_numeric(cell) == IF cell.t = "int" THEN FromInt(cell.v) ELSE NaN

fillna(x, v) == IF x.k = "nan" THEN FromInt(v) ELSE x

SentPolls(cell) == to_numeric(cell)

LostPolls_nofill(cell) == to_numeric(cell)

LostPolls(cell) == fillna(to_numeric(cell), 0)

PacketLoss(lost, sent) == Times(Div(lost, sent), 100)

\* pd.to_datetime(column) with the default errors="raise": an empty cell
\* becomes NaT, text that is no timestamp raises.
to_datetime_raises(rows) == \E k \in 1..Len(rows) : rows[k].ts = "bad"

to_datetime(cell) == IF cell = "" THEN "NaT" ELSE cell

\* The table after line 44: one record per raw row, in file order.
Frame(rows) ==
    [k \in 1..Len(rows) |->
        LET sent == SentPolls(rows[k].sent)
            lost == LostPolls(rows[k].lost)
        IN  [line |-> k,
             Timestamp |-> to_datetime(rows[k].ts),
             Sent |-> sent,
             Lost |-> lost,
             PacketLoss |-> PacketLoss(lost, sent)]]

IsTimestamp(row) == row.Timestamp # "NaT"

\* df.dropna(subset=["Timestamp"])
dropna(fr) == SelectSeq(fr, IsTimestamp)

(***************************** the renderer ********************************)
Rendered(path, mask) ==
    [raised |-> FALSE, err |-> "", open |-> 0, saved |-> TRUE,
     path |-> path, outage |-> mask]

RenderError(err) ==
    [raised |-> TRUE, err |-> err, open |-> 1, saved |-> FALSE,
     path |-> <<>>, outage |-> <<>>]

\* bqm.py: plt.subplots, the plots, savefig, plt.close. No statement
\* indexes into the dataset, so an empty one is drawn as empty axes.
plot_day_v1(d, date) == Rendered(OutputPath(date), <<>>)

plot_day_noxlim(d, date) ==
    Rendered(OutputPath(date),
             [k \in 1..Len(d) |->
                 GreaterEq(d[k].PacketLoss, PACKET_LOSS_OUTAGE_THRESHOLD)])

\* bqm_v2.py: plt.subplots opens a figure; set_xlim reads .iloc[0], which
\* raises IndexError on an empty dataset and leaves the figure open;
\* otherwise the outage mask, savefig, and plt.close.
plot_day(d, date) ==
    IF d = <<>>
    THEN RenderError("IndexError")
    ELSE Rendered(OutputPath(date),
                  [k \in 1..Len(d) |->
                      GreaterEq(d[k].PacketLoss, PACKET_LOSS_OUTAGE_THRESHOLD)])

LoadError(err) ==
    [raised |-> TRUE, err |-> err, frame |-> <<>>, handed |-> FALSE,
     df |-> <<>>, open |-> 0, saved |-> FALSE, path |-> <<>>,
     outage |-> <<>>]

\* process_file(path, date) of either script, on a file holding content.
process_file(version, content, date) ==
    IF content.kind # "table" THEN LoadError("ParserError")
    ELSE IF ~content.cols THEN LoadError("KeyError")
    ELSE IF to_datetime_raises(content.rows) THEN LoadError("DateParseError")
    ELSE The({ The({ [raised |-> r.raised, err |-> r.err, frame |-> fr,
                      handed |-> TRUE, df |-> dropna(fr), open |-> r.open,
                      saved |-> r.saved, path |-> r.path,
                      outage |-> r.outage]
                     : r \in {IF version = "bqm_v2"
                              THEN plot_day(dropna(fr), date)
                              ELSE plot_day_v1(dropna(fr), date)} })
               : fr \in {Frame(content.rows)} })

(************************** the input directory ****************************)
Name(date, rest) == Prefix \o date \o rest

F_Mar01 == Name(<<"2","0","2","4","-","0","3","-","0","1">>, DotCsv)
F_Mar02 == Name(<<"2","0","2","4","-","0","3","-","0","2">>, DotCsv)
F_Year999 == Name(<<"0","9","9","9","-","0","1","-","0","1">>, DotCsv)
F_Month13 == Name(<<"2","0","2","4","-","1","3","-","0","1">>, DotCsv)
F_Feb30 == Name(<<"2","0","2","4","-","0","2","-","3","0">>, DotCsv)
F_Bak == Name(<<"2","0","2","4","-","0","3","-","0","1">>,
              DotCsv \o <<".","b","a","k">>)
F_Grouping == Name(<<"2","0","2","4","-","3","-","0","1">>, DotCsv)
F_Txt == Name(<<"2","0","2","4","-","0","3","-","0","1">>,
              <<".","t","x","t">>)
F_Leading == <<"x">> \o F_Mar01
\* The year's last digit is U+0664 ARABIC-INDIC DIGIT FOUR.
F_ArabicYear == Name(<<"2","0","2","U+0664","-","0","3","-","0","1">>, DotCsv)

FileNames ==
    {F_Mar01, F_Mar02, F_Year999, F_Month13, F_Feb30, F_Bak, F_Grouping,
     F_Txt, F_Leading, F_ArabicYear}

(****************************** the driver *********************************)
Line(kind, text, err) == [kind |-> kind, text |-> text, err |-> err]

Fresh ==
    /\ listing = <<>>
    /\ i = 1
    /\ pc = "start"
    /\ stdout = <<>>
    /\ images = {}
    /\ written = <<>>
    /\ figs = 0
    /\ attempted = <<>>
    /\ csv = NoFile
    /\ frame = <<>>
    /\ handed = FALSE
    /\ df = <<>>
    /\ outage = <<>>

Init ==
    /\ script \in {"bqm", "bqm_v2"}
    /\ dir \in {d \in SUBSET FileNames : Cardinality(d) <= MaxFiles}
    /\ Fresh

\* One well-formed file in the directory: the loader's inputs are the
\* file's content.
InitLoader ==
    /\ script \in {"bqm", "bqm_v2"}
    /\ dir = {F_Mar01}
    /\ Fresh

\* main, line 189: the directory is listed and sorted once.
ListDir ==
    /\ pc = "start"
    /\ listing' = sorted(dir)
    /\ pc' = "loop"
    /\ UNCHANGED <<script, dir, i, stdout, images, written, figs, attempted,
                   csv, frame, handed, df, outage>>

\* An iteration whose filename the classifier does not match: continue.
Skip ==
    /\ pc = "loop"
    /\ i <= Len(listing)
    /\ extract_date(listing[i]) = None
    /\ i' = i + 1
    /\ UNCHANGED <<script, dir, listing, pc, stdout, images, written, figs,
                   attempted, csv, frame, handed, df, outage>>

\* An iteration whose filename matches but holds no calendar date: strptime
\* raises ValueError in extract_date, which main calls outside its try, so
\* the exception leaves main and ends the process.
DateError ==
    /\ pc = "loop"
    /\ i <= Len(listing)
    /\ extract_date(listing[i]).kind = "raise"
    /\ pc' = "crashed"
    /\ UNCHANGED <<script, dir, listing, i, stdout, images, written, figs,
                   attempted, csv, frame, handed, df, outage>>

\* The loop is at an entry for which extract_date returned a date.
AtClassifiedFile ==
    /\ pc = "loop"
    /\ i <= Len(listing)
    /\ extract_date(listing[i]).kind = "date"

\* An iteration on a classified file holding content: process_file inside
\* try/except Exception, then the next entry.
Process(content) ==
    /\ AtClassifiedFile
    /\ \E r \in {process_file(script, content, extract_date(listing[i]))} :
       LET filename == listing[i]
           first == IF script = "bqm"
                    THEN <<Line("Processing", filename, "")>> ELSE <<>>
           last == IF r.raised THEN Line("Failed", filename, r.err)
                               ELSE Line("Saved", r.path, "")
       IN  /\ attempted' = Append(attempted, filename)
           /\ stdout' = Append(stdout \o first, last)
           /\ images' = IF r.saved THEN images \cup {r.path} ELSE images
           /\ written' = IF r.saved THEN Append(written, r.path) ELSE written
           /\ figs' = figs + r.open
           /\ csv' = content
           /\ frame' = r.frame
           /\ handed' = r.handed
           /\ df' = r.df
           /\ outage' = r.outage
    /\ i' = i + 1
    /\ UNCHANGED <<script, dir, listing, pc>>

\* The loop is exhausted: main returns.
Finish ==
    /\ pc = "loop"
    /\ i > Len(listing)
    /\ pc' = "done"
    /\ UNCHANGED <<script, dir, listing, i, stdout, images, written, figs,
                   attempted, csv, frame, handed, df, outage>>

\* The file's content is read only once the filename is classified.
ProcessBatch ==
    /\ AtClassifiedFile
    /\ \E content \in Contents(BatchCells, MaxRows) : Process(content)

ProcessLoader ==
    /\ AtClassifiedFile
    /\ \E content \in Contents(LoaderCells, MaxLoaderRows) : Process(content)

Next == ListDir \/ Skip \/ DateError \/ ProcessBatch \/ Finish

NextLoader == ListDir \/ ProcessLoader \/ Finish

Spec == Init /\ [][Next]_vars

SpecLoader == InitLoader /\ [][NextLoader]_vars

(***************************** properties **********************************)
Range(s) == {s[k] : k \in 1..Len(s)}

\* The printed outcome lines, one per process_file call.
IsOutcome(line) == line.kind \in {"Saved", "Failed"}
Outcomes == SelectSeq(stdout, IsOutcome)

\* The name is exactly bqm-result-<4 digits>-<2 digits>-<2 digits>.csv
NameHasPattern(f) ==
    /\ Len(f) = Len(Prefix) + 14
    /\ SubSeq(f, 1, Len(Prefix)) = Prefix
    /\ DateThenCsvAt(f, Len(Prefix) + 1)

\* The date substring of a matched filename.
DateText(f) == SubSeq(f, Len(Prefix) + 1, Len(Prefix) + 10)

ImagePathFor(dateText) ==
    OUTPUT_DIR \o <<"/", "b", "q", "m", "_">> \o dateText
               \o <<".", "p", "n", "g">>

Terminated == pc \in {"done", "crashed"}

\* C1: once main has ended, the files matching the pattern have been
\* attempted in ascending filename order, each exactly once, and each has
\* exactly one outcome line: Saved with its image present, or Failed naming
\* the file.
C1_EveryMatchedFileHasOneOutcome ==
    Terminated =>
        /\ Range(attempted) = {f \in dir : re_match(f) # <<>>}
        /\ \A j, k \in 1..Len(attempted) :
               j < k => LexLess(attempted[j], attempted[k])
        /\ Len(Outcomes) = Len(attempted)
        /\ \A k \in 1..Len(attempted) :
               \/ /\ Outcomes[k].kind = "Failed"
                  /\ Outcomes[k].text = attempted[k]
               \/ /\ Outcomes[k].kind = "Saved"
                  /\ Outcomes[k].text \in images

\* C2: a filename that matches the pattern but holds no calendar date is
\* reported as a failure naming it, and the process never ends on an
\* uncaught exception.
C2_InvalidDateIsReported ==
    /\ pc # "crashed"
    /\ \A k \in 1..Len(listing) :
           (k < i /\ re_match(listing[k]) # <<>>
                  /\ strptime(re_match(listing[k])).kind = "raise")
             => \E n \in 1..Len(stdout) :
                    stdout[n].kind = "Failed" /\ stdout[n].text = listing[k]

\* C3: for every entry the loop has passed whose name is not exactly of the
\* pattern, the classifier returned no match and process_file was never
\* called on it.
C3_OtherNamesNeverLoaded ==
    \A k \in 1..Len(listing) :
        (k < i /\ ~NameHasPattern(listing[k]))
          => /\ extract_date(listing[k]) = None
             /\ listing[k] \notin Range(attempted)

\* C4: a table of N rows of which K have a timestamp that cannot be parsed
\* reaches plot_day as the N-K other rows, in file order.
C4_UnparseableRowsDropped ==
    (csv.kind = "table" /\ csv.cols) =>
        LET lines == [k \in 1..Len(csv.rows) |-> k]
            Parses(k) == csv.rows[k].ts = "ok"
        IN  /\ handed
            /\ [k \in 1..Len(df) |-> df[k].line] = SelectSeq(lines, Parses)

\* C5: every row whose Sent Polls is zero, empty or non-numeric has the
\* missing value as its packet-loss percentage.
C5_ZeroSentIsMissing ==
    \A k \in 1..Len(frame) :
        LET raw == csv.rows[frame[k].line]
        IN  (raw.sent.t # "int" \/ raw.sent.v = 0)
              => frame[k].PacketLoss = NaN

RECURSIVE GCD(_, _)
GCD(a, b) == IF b = 0 THEN a ELSE GCD(b, a % b)

IsPowerOfTwo(n) == n > 0 /\ n = 2^(BitLen(n) - 1)

\* C6: every row of a loaded table gets a packet-loss percentage, and for
\* a row with numeric non-zero Sent Polls it is the number L / Sent x 100
\* as float64 arithmetic computes it, where L is Lost Polls if numeric and
\* 0 otherwise: the quotient rounded, then the product rounded. That
\* number lies within one of the exact percentage, and is the exact
\* percentage whenever the quotient is a binary fraction and the
\* percentage a whole number.
C6_PacketLossFormula ==
    /\ (csv.kind = "table" /\ csv.cols /\ ~to_datetime_raises(csv.rows))
         => /\ Len(frame) = Len(csv.rows)
            /\ \A k \in 1..Len(frame) : frame[k].line = k
    /\ \A k \in 1..Len(frame) :
           LET raw == csv.rows[frame[k].line]
               L == IF raw.lost.t = "int" THEN raw.lost.v ELSE 0
               S == raw.sent.v
               whole == (100 * L) \div S
               pct == frame[k].PacketLoss
           IN  (raw.sent.t = "int" /\ S # 0)
                 => /\ pct.k = "num"
                    /\ pct = Times(Div(FromInt(L), FromInt(S)), 100)
                    /\ GreaterEq(pct, whole - 1)
                    /\ ~GreaterEq(pct, whole + 2)
                    /\ ((100 * L) % S = 0 /\ IsPowerOfTwo(S \div GCD(L, S)))
                          => pct = FromInt(whole)

\* C6 witness: a loaded row with Sent Polls 100 and an empty Lost Polls,
\* whose percentage is the number 0.0.
C6_Witness ==
    \E k \in 1..Len(frame) :
        LET raw == csv.rows[frame[k].line]
        IN  /\ raw.sent = IntCell(100)
            /\ raw.lost = Empty
            /\ frame[k].PacketLoss = Zero

\* C7: for every file process_file was called on, formatting the
\* classifier's date reproduces the date substring of the filename, and a
\* saved file's image is <output_dir>/bqm_<that substring>.png.
C7_DateRoundTrips ==
    \A k \in 1..Len(attempted) :
        LET f == attempted[k]
        IN  /\ strftime(extract_date(f)) = DateText(f)
            /\ (k <= Len(Outcomes) /\ Outcomes[k].kind = "Saved")
                 => Outcomes[k].text = ImagePathFor(DateText(f))

\* C8: in the v2 renderer a row is in the outage mask exactly when its
\* Sent Polls is numeric and non-zero and its packet-loss percentage is a
\* number not below the threshold 20.0; a row whose Sent Polls is zero or
\* non-numeric is never in the mask.
C8_OutageMask ==
    (script = "bqm_v2" /\ handed /\ df # <<>>) =>
        /\ Len(outage) = Len(df)
        /\ \A k \in 1..Len(df) :
               LET raw == csv.rows[df[k].line]
                   pct == df[k].PacketLoss
               IN  outage[k] <=>
                     /\ raw.sent.t = "int"
                     /\ raw.sent.v # 0
                     /\ pct.k = "num"
                     /\ ~Less(pct, FromInt(PACKET_LOSS_OUTAGE_THRESHOLD))

\* C9: whenever the driver is about to process a directory entry, no
\* figure is open.
C9_NoFigureOpenBetweenFiles ==
    (pc = "loop" /\ i <= Len(listing)) => figs = 0

\* C10: in v2, a process_file call that hands plot_day a dataset of zero
\* rows prints exactly one line, the failure naming that file, writes no
\* image, and the driver goes on to the next entry.
C10_EmptyDatasetFails ==
    [][(script = "bqm_v2" /\ attempted' # attempted /\ handed' /\ df' = <<>>)
         => /\ stdout' = Append(stdout, Line("Failed", listing[i], "IndexError"))
            /\ images' = images
            /\ written' = written
            /\ pc' = "loop"
            /\ i' = i + 1]_vars

\* C10 witness: v2 has processed a file with rows, all of them dropped for
\* their empty timestamps, and its last line is the failure naming it.
C10_Witness ==
    /\ script = "bqm_v2"
    /\ handed
    /\ df = <<>>
    /\ Len(csv.rows) > 0
    /\ attempted # <<>>
    /\ stdout # <<>>
    /\ stdout[Len(stdout)]
         = Line("Failed", attempted[Len(attempted)], "IndexError")

====
